---- MODULE Spec2Model ----
\* Secure storage layer of tabd-native-host (storage code listed in
\* src/README.md lines 104-300, callers in src/main.go).
\*
\* Cryptography is modelled symbolically under the usual perfect-cryptography
\* assumption: argon2.IDKey is an injective function of all its arguments and
\* an AES-GCM box opens only under the key and nonce it was sealed with and
\* only when none of its bytes has been altered.  The variable boxes is the
\* table of that ideal cipher: one entry per distinct (key, nonce, plaintext)
\* ever sealed; the bytes gcm.Seal returns refer to their entry, and sealing
\* the same plaintext under the same key and nonce again returns the same
\* bytes, as a deterministic cipher does.  Everything else (record
\* layout, offsets, lengths, error paths, file operations, path joining,
\* base64 encoding) is computed as the code computes it.
EXTENDS Integers, Sequences, FiniteSets, TLC

\* ---------------------------------------------------------------- bounds
\* longest plaintext blob handed to Store
MaxBlobLen == 1
\* number of storage calls in one behaviour
MaxOps == 3
\* number of process starts in one behaviour
MaxStarts == 2
\* number of I/O failures and outside events (a file altered or lost, the
\* random source breaking) in one behaviour
MaxFaults == 1

\* ------------------------------------------------------ program constants
SaltLen == 16
NonceLen == 12
TagSize == 16
KeyLen == 32
PassphraseBytes == 32
ArgonTime == 1
ArgonMemory == 64 * 1024
ArgonThreads == 4
AesBlockSize == 16

\* ------------------------------------------------------------------ bytes
\* A byte of a buffer is either a plain byte [v |-> 0..255] or one byte of
\* the output of gcm.Seal (see Seal below).
Raw(n) == [v |-> n]
IsRaw(b) == "v" \in DOMAIN b
IsSealed(b) == "h" \in DOMAIN b

\* make([]byte, n): n zero bytes
MakeBytes(n) == [i \in 1..n |-> Raw(0)]

Prefix(s, n) == [i \in 1..n |-> s[i]]
Suffix(s, n) == [i \in 1..(Len(s) - n) |-> s[n + i]]

RECURSIVE Pow2(_)
Pow2(b) == IF b = 0 THEN 1 ELSE 2 * Pow2(b - 1)

\* the byte with bit `bit` inverted
FlipBitOfByte(b, bit) ==
    IF IsRaw(b)
    THEN IF (b.v \div Pow2(bit)) % 2 = 1
         THEN Raw(b.v - Pow2(bit))
         ELSE Raw(b.v + Pow2(bit))
    ELSE [b EXCEPT !.x = IF bit \in b.x THEN b.x \ {bit} ELSE b.x \cup {bit}]

FlipBit(s, off, bit) == [s EXCEPT ![off + 1] = FlipBitOfByte(s[off + 1], bit)]

\* plaintext blobs handed to Store
PlainByteVals == {104}
RECURSIVE SeqsUpTo(_, _)
SeqsUpTo(S, n) ==
    IF n = 0 THEN {<<>>}
    ELSE LET shorter == SeqsUpTo(S, n - 1)
         IN shorter \cup {Append(s, x) : s \in {t \in shorter : Len(t) = n - 1}, x \in S}
Blobs == SeqsUpTo({Raw(v) : v \in PlainByteVals}, MaxBlobLen)

\* ----------------------------------------------------------- crypto/rand
\* rand.Read(b) returns (n, err); every call site discards both results.
\* While the random source works, a call fills b with bytes it has never
\* delivered before ("ok"; the bytes of one call all have the value val, the
\* number of the draw).  go.mod requires go 1.24.0, and from that release on
\* crypto/rand.Read never returns an error: when the source cannot be read
\* the runtime aborts the process inside the call ("fatal").
RandOutcomes(working, draw) ==
    IF working THEN {[res |-> "ok", val |-> draw]}
    ELSE {[res |-> "fatal", val |-> 0]}

\* a read that delivers nothing and leaves the buffer as make() built it
RandReadLeavingBuffer(buf, ro) == buf

RandRead(buf, ro) ==
    IF ro.res = "ok" THEN [i \in 1..Len(buf) |-> Raw(ro.val)] ELSE buf

\* ------------------------------------------------------- encoding/base64
\* base64.URLEncoding alphabet, as ASCII codes, and the padding character '='
B64Char(s) ==
    IF s < 26 THEN 65 + s
    ELSE IF s < 52 THEN 97 + (s - 26)
    ELSE IF s < 62 THEN 48 + (s - 52)
    ELSE IF s = 62 THEN 45
    ELSE 95
B64Pad == 61

RECURSIVE EncodeToString(_)
EncodeToString(src) ==
    IF Len(src) = 0 THEN <<>>
    ELSE IF Len(src) = 1 THEN
        LET n == src[1].v * 65536
        IN << Raw(B64Char(n \div 262144)), Raw(B64Char((n \div 4096) % 64)),
              Raw(B64Pad), Raw(B64Pad) >>
    ELSE IF Len(src) = 2 THEN
        LET n == src[1].v * 65536 + src[2].v * 256
        IN << Raw(B64Char(n \div 262144)), Raw(B64Char((n \div 4096) % 64)),
              Raw(B64Char((n \div 64) % 64)), Raw(B64Pad) >>
    ELSE
        LET n == src[1].v * 65536 + src[2].v * 256 + src[3].v
        IN << Raw(B64Char(n \div 262144)), Raw(B64Char((n \div 4096) % 64)),
              Raw(B64Char((n \div 64) % 64)), Raw(B64Char(n % 64)) >>
           \o EncodeToString(Suffix(src, 3))

\* --------------------------------------------------------- path/filepath
\* A path is the sequence of its elements; a key string is the sequence of
\* the elements between its separators ("./a" is <<".", "a">>).
TabdDir == <<"home", ".tabd">>

RECURSIVE CleanOnto(_, _)
CleanOnto(done, rest) ==
    IF rest = <<>> THEN done
    ELSE LET e == Head(rest)
         IN IF e = "." \/ e = ""
            THEN CleanOnto(done, Tail(rest))
            ELSE IF e = ".." /\ done # <<>> /\ done[Len(done)] # ".."
            THEN CleanOnto(Prefix(done, Len(done) - 1), Tail(rest))
            ELSE CleanOnto(Append(done, e), Tail(rest))

\* filepath.Join(dir, name): join, then Clean
Join(dir, name) == CleanOnto(<<>>, dir \o name)

\* key + ".enc": the suffix is appended to the last element of the key
WithEnc(key) == [key EXCEPT ![Len(key)] = key[Len(key)] \o ".enc"]

FilePath(key) == Join(TabdDir, WithEnc(key))
PassphrasePath == Join(TabdDir, <<".passphrase">>)

Keys == { <<"a">>, <<".", "a">>, <<"b">> }
\* the key of saveClipboardData and getClipboardData
LatestKey == <<"latest_clipboard">>
AllKeys == Keys \cup {LatestKey}
Paths == {PassphrasePath} \cup {FilePath(k) : k \in AllKeys}
\* directories that exist: the home directory and ~/.tabd (os.MkdirAll)
Dirs == { <<"home">>, TabdDir }

\* ----------------------------------------------------------------- errors
Nil == "nil"
ErrNotExist == "no such file or directory"
ErrIO == "input/output error"
ErrInvalidData == "invalid encrypted data"
ErrOpen == "cipher: message authentication failed"
ErrKeySize == "crypto/aes: invalid key size"
ErrBlockSize == "cipher: NewGCM requires 128-bit block cipher"
\* fmt.Errorf("failed to encrypt data: %v", err)
WrapEncrypt(e) == "failed to encrypt data: " \o e

\* ---------------------------------------------------------- encoding/json
\* A string is the sequence of the ASCII codes of its characters.  A
\* ClipboardData is the record of its five fields.
Bytes(codes) == [i \in 1..Len(codes) |-> Raw(codes[i])]

ZeroData == [Type |-> <<>>, Text |-> <<>>, Timestamp |-> 0, URL |-> <<>>, Title |-> <<>>]

\* the json tags of ClipboardData: type, text, timestamp, url, title
TagType == <<116, 121, 112, 101>>
TagText == <<116, 101, 120, 116>>
TagTimestamp == <<116, 105, 109, 101, 115, 116, 97, 109, 112>>
TagURL == <<117, 114, 108>>
TagTitle == <<116, 105, 116, 108, 101>>

ErrJSON == "invalid character or unexpected end of JSON input"
ErrJSONType == "json: cannot unmarshal value into Go struct field"

\* decimal digits of a number that is not negative
RECURSIVE Itoa(_)
Itoa(n) == IF n < 10 THEN <<48 + n>> ELSE Append(Itoa(n \div 10), 48 + (n % 10))

\* a string literal: the quote (34) and the backslash (92) are escaped
RECURSIVE EscapeString(_)
EscapeString(str) ==
    IF str = <<>> THEN <<>>
    ELSE (IF Head(str) \in {34, 92} THEN <<92, Head(str)>> ELSE <<Head(str)>>)
             \o EscapeString(Tail(str))

Quoted(str) == <<34>> \o EscapeString(str) \o <<34>>

\* a marshalling that writes strings without escaping them
MarshalUnescaped(d) ==
    Bytes(<<123>> \o <<34>> \o TagType \o <<34>> \o <<58>> \o <<34>> \o d.Type \o <<34>>
          \o <<44>> \o <<34>> \o TagText \o <<34>> \o <<58>> \o <<34>> \o d.Text \o <<34>>
          \o <<44>> \o <<34>> \o TagTimestamp \o <<34>> \o <<58>> \o Itoa(d.Timestamp)
          \o <<44>> \o <<34>> \o TagURL \o <<34>> \o <<58>> \o <<34>> \o d.URL \o <<34>>
          \o <<44>> \o <<34>> \o TagTitle \o <<34>> \o <<58>> \o <<34>> \o d.Title \o <<34>>
          \o <<125>>)

\* json.Marshal(data) of a ClipboardData:
\* {"type":"..","text":"..","timestamp":N,"url":"..","title":".."}
Marshal(d) ==
    Bytes(<<123>> \o Quoted(TagType) \o <<58>> \o Quoted(d.Type)
          \o <<44>> \o Quoted(TagText) \o <<58>> \o Quoted(d.Text)
          \o <<44>> \o Quoted(TagTimestamp) \o <<58>> \o Itoa(d.Timestamp)
          \o <<44>> \o Quoted(TagURL) \o <<58>> \o Quoted(d.URL)
          \o <<44>> \o Quoted(TagTitle) \o <<58>> \o Quoted(d.Title)
          \o <<125>>)

\* The decoder reads objects whose members are strings and numbers that are
\* not negative, written without white space.
ScanFail == [ok |-> FALSE, kind |-> "none", val |-> <<>>, next |-> 0]

\* a string literal whose opening quote stands before position i
RECURSIVE ScanString(_, _, _)
ScanString(b, i, acc) ==
    IF i > Len(b) THEN ScanFail
    ELSE IF b[i].v = 34 THEN [ok |-> TRUE, kind |-> "string", val |-> acc, next |-> i + 1]
    ELSE IF b[i].v = 92
    THEN IF i + 1 <= Len(b) /\ b[i + 1].v \in {34, 92}
         THEN ScanString(b, i + 2, Append(acc, b[i + 1].v))
         ELSE ScanFail
    ELSE ScanString(b, i + 1, Append(acc, b[i].v))

RECURSIVE ScanNumber(_, _, _)
ScanNumber(b, i, acc) ==
    IF i <= Len(b) /\ b[i].v \in 48..57
    THEN ScanNumber(b, i + 1, acc * 10 + (b[i].v - 48))
    ELSE [ok |-> TRUE, kind |-> "number", val |-> acc, next |-> i]

ScanValue(b, i) ==
    IF i > Len(b) THEN ScanFail
    ELSE IF b[i].v = 34 THEN ScanString(b, i + 1, <<>>)
    ELSE IF b[i].v \in 48..57 THEN ScanNumber(b, i, 0)
    ELSE ScanFail

\* the member name is matched with the json tags; a member with another name
\* is skipped; a value of the wrong kind is a type error
SetField(d, name, v) ==
    LET want == IF name = TagTimestamp THEN "number" ELSE "string"
    IN IF name \notin {TagType, TagText, TagTimestamp, TagURL, TagTitle}
       THEN [ok |-> TRUE, d |-> d]
       ELSE IF v.kind # want THEN [ok |-> FALSE, d |-> d]
       ELSE IF name = TagType THEN [ok |-> TRUE, d |-> [d EXCEPT !.Type = v.val]]
       ELSE IF name = TagText THEN [ok |-> TRUE, d |-> [d EXCEPT !.Text = v.val]]
       ELSE IF name = TagTimestamp THEN [ok |-> TRUE, d |-> [d EXCEPT !.Timestamp = v.val]]
       ELSE IF name = TagURL THEN [ok |-> TRUE, d |-> [d EXCEPT !.URL = v.val]]
       ELSE [ok |-> TRUE, d |-> [d EXCEPT !.Title = v.val]]

\* the members of an object from position i on, the opening quote of a name
RECURSIVE ScanMembers(_, _, _, _)
ScanMembers(b, i, d, typed) ==
    IF i > Len(b) \/ b[i].v # 34 THEN [data |-> ZeroData, err |-> ErrJSON]
    ELSE
        LET k == ScanString(b, i + 1, <<>>)
        IN IF ~k.ok \/ k.next > Len(b) THEN [data |-> ZeroData, err |-> ErrJSON]
           ELSE IF b[k.next].v # 58 THEN [data |-> ZeroData, err |-> ErrJSON]
           ELSE
               LET v == ScanValue(b, k.next + 1)
                   f == SetField(d, k.val, v)
               IN IF ~v.ok \/ v.next > Len(b) THEN [data |-> ZeroData, err |-> ErrJSON]
                  ELSE IF b[v.next].v = 44
                  THEN ScanMembers(b, v.next + 1, f.d, typed /\ f.ok)
                  ELSE IF b[v.next].v = 125 /\ v.next = Len(b)
                  THEN IF typed /\ f.ok THEN [data |-> f.d, err |-> Nil]
                       ELSE [data |-> ZeroData, err |-> ErrJSONType]
                  ELSE [data |-> ZeroData, err |-> ErrJSON]

\* json.Unmarshal(b, &data) into a zero ClipboardData
Unmarshal(b) ==
    IF \E i \in 1..Len(b) : ~IsRaw(b[i]) THEN [data |-> ZeroData, err |-> ErrJSON]
    ELSE IF Len(b) < 2 THEN [data |-> ZeroData, err |-> ErrJSON]
    ELSE IF b[1].v # 123 THEN [data |-> ZeroData, err |-> ErrJSON]
    ELSE IF b[2].v = 125
    THEN IF Len(b) = 2 THEN [data |-> ZeroData, err |-> Nil]
         ELSE [data |-> ZeroData, err |-> ErrJSON]
    ELSE ScanMembers(b, 2, ZeroData, TRUE)

\* the clipboard data the browser extension sends: a copy of the text a, and
\* a copy of a text that is one quote character
Datas ==
    { [Type |-> <<99, 111, 112, 121>>, Text |-> <<97>>, Timestamp |-> 1,
       URL |-> <<>>, Title |-> <<>>],
      [Type |-> <<99, 111, 112, 121>>, Text |-> <<34>>, Timestamp |-> 12,
       URL |-> <<117>>, Title |-> <<>>] }

\* the messages the native host receives: the clipboard data, an object with
\* a member the host does not know ({"text":"b","x":1}), and a message cut
\* off in the middle ({"type":"co)
Messages ==
    {Marshal(d) : d \in Datas}
        \cup {Bytes(<<123, 34, 116, 101, 120, 116, 34, 58, 34, 98, 34, 44, 34, 120, 34, 58, 49, 125>>),
              Bytes(<<123, 34, 116, 121, 112, 101, 34, 58, 34, 99, 111>>)}

\* ----------------------------------------------------------------- crypto
\* a key derivation that does not use the password
IDKeyIgnoringPassword(password, salt, time, memory, threads, keyLen) ==
    [pw |-> <<>>, salt |-> salt, time |-> time, memory |-> memory,
     threads |-> threads, len |-> keyLen]

\* argon2.IDKey(password, salt, time, memory, threads, keyLen)
IDKey(password, salt, time, memory, threads, keyLen) ==
    [pw |-> password, salt |-> salt, time |-> time, memory |-> memory,
     threads |-> threads, len |-> keyLen]

\* aes.NewCipher(key): the key must be 16, 24 or 32 bytes long
NewCipher(key) ==
    IF key.len \in {16, 24, 32}
    THEN [block |-> [key |-> key, size |-> AesBlockSize], err |-> Nil]
    ELSE [block |-> [key |-> key, size |-> 0], err |-> ErrKeySize]

\* cipher.NewGCM(block): the block size must be 128 bits
NewGCM(block) ==
    IF block.size = 16
    THEN [gcm |-> [key |-> block.key, nonceSize |-> NonceLen], err |-> Nil]
    ELSE [gcm |-> [key |-> block.key, nonceSize |-> 0], err |-> ErrBlockSize]

\* gcm.Seal(nil, nonce, data, nil): len(data) ciphertext bytes followed by
\* TagSize tag bytes, all bound to the entry h of (key, nonce, data) in the
\* cipher table bx.  x is the set of bit positions altered since sealing.
BoxOf(bx, key, nonce, data) ==
    LET box == [key |-> key, nonce |-> nonce, data |-> data]
        found == {h \in 1..Len(bx) : bx[h] = box}
    IN IF found # {}
       THEN [h |-> CHOOSE h \in found : TRUE, boxes |-> bx]
       ELSE [h |-> Len(bx) + 1, boxes |-> Append(bx, box)]

Seal(bx, gcm, nonce, data) ==
    LET b == BoxOf(bx, gcm.key, nonce, data)
    IN [out |-> [i \in 1..(Len(data) + TagSize) |->
                    [h |-> b.h, t |-> IF i <= Len(data) THEN "ct" ELSE "tag",
                     i |-> i, x |-> {}]],
        boxes |-> b.boxes]

\* an Open that decrypts without verifying the ciphertext bytes against the tag
OpenUnauthenticated(bx, gcm, nonce, ciphertext) ==
    IF Len(ciphertext) < TagSize
    THEN [out |-> <<>>, err |-> ErrOpen]
    ELSE
        LET n == Len(ciphertext) - TagSize
            h == ciphertext[Len(ciphertext)].h
        IN IF /\ \A i \in (n + 1)..Len(ciphertext) :
                    /\ IsSealed(ciphertext[i]) /\ ciphertext[i].h = h
                    /\ ciphertext[i].t = "tag" /\ ciphertext[i].i = i
                    /\ ciphertext[i].x = {}
              /\ bx[h].key = gcm.key /\ bx[h].nonce = nonce
              /\ Len(bx[h].data) = n
           THEN [out |-> bx[h].data, err |-> Nil]
           ELSE [out |-> <<>>, err |-> ErrOpen]

\* gcm.Open(nil, nonce, ciphertext, nil)
Open(bx, gcm, nonce, ciphertext) ==
    IF Len(ciphertext) < TagSize
    THEN [out |-> <<>>, err |-> ErrOpen]
    ELSE
        LET n == Len(ciphertext) - TagSize
            intact(i) ==
                LET b == ciphertext[i]
                IN /\ IsSealed(b)
                   /\ b.h = ciphertext[Len(ciphertext)].h
                   /\ b.t = (IF i <= n THEN "ct" ELSE "tag")
                   /\ b.i = i /\ b.x = {}
            h == ciphertext[Len(ciphertext)].h
        IN IF /\ \A i \in 1..Len(ciphertext) : intact(i)
              /\ bx[h].key = gcm.key /\ bx[h].nonce = nonce
              /\ Len(bx[h].data) = n
           THEN [out |-> bx[h].data, err |-> Nil]
           ELSE [out |-> <<>>, err |-> ErrOpen]

\* a layout in which the nonce is never copied into the record
CombineWithoutNonce(salt, nonce, ciphertext) ==
    salt \o MakeBytes(Len(nonce)) \o ciphertext

\* "Combine salt + nonce + ciphertext": the record encrypt returns
Combine(salt, nonce, ciphertext) == salt \o nonce \o ciphertext

\* EncryptedFileStorage.encrypt; rs and rn are what the two rand.Read calls
\* do.  failed: the internal steps that failed; fatal: the process aborted.
encrypt(bx, passphrase, data, rs, rn) ==
    LET salt == RandRead(MakeBytes(SaltLen), rs)
        key == IDKey(passphrase, salt, ArgonTime, ArgonMemory, ArgonThreads, KeyLen)
        c == NewCipher(key)
        g == NewGCM(c.block)
        nonce == RandRead(MakeBytes(g.gcm.nonceSize), rn)
        sealed == Seal(bx, g.gcm, nonce, data)
        ciphertext == sealed.out
    IN IF rs.res = "fatal"
       THEN [out |-> <<>>, err |-> Nil, fatal |-> TRUE, failed |-> {"rand.Read"},
             boxes |-> bx]
       ELSE IF c.err # Nil
       THEN [out |-> <<>>, err |-> c.err, fatal |-> FALSE, boxes |-> bx,
             failed |-> {"aes.NewCipher"}]
       ELSE IF g.err # Nil
       THEN [out |-> <<>>, err |-> g.err, fatal |-> FALSE, boxes |-> bx,
             failed |-> {"cipher.NewGCM"}]
       ELSE IF rn.res = "fatal"
       THEN [out |-> <<>>, err |-> Nil, fatal |-> TRUE, failed |-> {"rand.Read"},
             boxes |-> bx]
       ELSE [out |-> Combine(salt, nonce, ciphertext), err |-> Nil, fatal |-> FALSE,
             boxes |-> sealed.boxes, failed |-> {}]

\* a short record handed to the cipher and reported as it reports it
ShortRecordAsOpenFailure ==
    [out |-> <<>>, err |-> ErrOpen,
     steps |-> <<"argon2.IDKey", "aes.NewCipher", "cipher.NewGCM", "gcm.Open">>]

\* return nil, fmt.Errorf("invalid encrypted data")
ShortRecord == [out |-> <<>>, err |-> ErrInvalidData, steps |-> <<>>]

\* EncryptedFileStorage.decrypt.  steps: the cryptographic calls made.
decrypt(bx, passphrase, data) ==
    IF Len(data) < 16 + 12
    THEN ShortRecord
    ELSE
        LET salt == Prefix(data, 16)
            nonceSize == 12
            nonce == Prefix(Suffix(data, 16), nonceSize)
            ciphertext == Suffix(data, 16 + nonceSize)
            key == IDKey(passphrase, salt, ArgonTime, ArgonMemory, ArgonThreads, KeyLen)
            c == NewCipher(key)
            g == NewGCM(c.block)
            o == Open(bx, g.gcm, nonce, ciphertext)
        IN IF c.err # Nil
           THEN [out |-> <<>>, err |-> c.err, steps |-> <<"argon2.IDKey", "aes.NewCipher">>]
           ELSE IF g.err # Nil
           THEN [out |-> <<>>, err |-> g.err,
                 steps |-> <<"argon2.IDKey", "aes.NewCipher", "cipher.NewGCM">>]
           ELSE [out |-> o.out, err |-> o.err,
                 steps |-> <<"argon2.IDKey", "aes.NewCipher", "cipher.NewGCM", "gcm.Open">>]

\* ------------------------------------------------------------ file system
\* A file system maps every path to [exists, data, mode]; mode is the
\* permission bits of the file.
Mode0600 == 384
\* a mode that lets group and others read the file (0644)
Mode0644 == 420
NoFile == [exists |-> FALSE, data |-> <<>>, mode |-> 0]
ParentDir(path) == Prefix(path, Len(path) - 1)

\* What the operating system does with one call.  Reads and removals either
\* work or fail; a write works, fails before the file is touched, or fails
\* after the file was truncated and the first n bytes were written.
ReadOutcomes == {"ok", "fail"}
RemoveOutcomes == {"ok", "fail"}
CutLens == {0, SaltLen + NonceLen - 1, SaltLen + NonceLen}
WriteOutcomes ==
    {[res |-> "ok", n |-> 0], [res |-> "openfail", n |-> 0]}
        \cup {[res |-> "partial", n |-> n] : n \in CutLens}

\* os.ReadFile(path)
ReadFile(fs, path, ro) ==
    IF ~fs[path].exists THEN [data |-> <<>>, err |-> ErrNotExist]
    ELSE IF ro = "fail" THEN [data |-> <<>>, err |-> ErrIO]
    ELSE [data |-> fs[path].data, err |-> Nil]

\* an open that leaves the content of an existing file in place
OpenWithoutTrunc(fs, path, perm) ==
    IF fs[path].exists THEN fs
    ELSE [fs EXCEPT ![path] = [exists |-> TRUE, data |-> <<>>, mode |-> perm]]

\* os.OpenFile(path, O_WRONLY|O_CREATE|O_TRUNC, perm): a file that does not
\* exist is created empty with mode perm; a file that exists is emptied and
\* keeps the mode it has.
OpenFile(fs, path, perm) ==
    [fs EXCEPT ![path] = [exists |-> TRUE, data |-> <<>>,
                          mode |-> IF fs[path].exists THEN fs[path].mode ELSE perm]]

\* f.Write(b) on a file opened without O_APPEND, off being the number of
\* bytes written through f so far: b goes to the offsets off+1 .. off+len(b),
\* over what is there; when the file is shorter than off (another process has
\* emptied it since) the gap reads as zero bytes
Write(fs, path, off, b) ==
    LET old == fs[path].data
        end == IF Len(old) > off + Len(b) THEN Len(old) ELSE off + Len(b)
    IN [fs EXCEPT ![path].data =
           [i \in 1..end |-> IF i > off /\ i <= off + Len(b) THEN b[i - off]
                             ELSE IF i <= Len(old) THEN old[i]
                             ELSE Raw(0)]]

\* os.WriteFile(path, data, perm): OpenFile with O_WRONLY|O_CREATE|O_TRUNC,
\* then Write, then Close
WriteFile(fs, path, data, perm, wo) ==
    IF ParentDir(path) \notin Dirs THEN [fs |-> fs, err |-> ErrNotExist]
    ELSE IF wo.res = "openfail" THEN [fs |-> fs, err |-> ErrIO]
    ELSE IF wo.res = "partial" /\ wo.n < Len(data)
    THEN [fs |-> Write(OpenFile(fs, path, perm), path, 0, Prefix(data, wo.n)), err |-> ErrIO]
    ELSE [fs |-> Write(OpenFile(fs, path, perm), path, 0, data), err |-> Nil]

\* a removal that treats a missing file as removed
RemoveIgnoringMissing(fs, path, ro) ==
    IF ~fs[path].exists THEN [fs |-> fs, err |-> Nil]
    ELSE IF ro = "fail" THEN [fs |-> fs, err |-> ErrIO]
    ELSE [fs |-> [fs EXCEPT ![path] = NoFile], err |-> Nil]

\* os.Remove(path)
Remove(fs, path, ro) ==
    IF ~fs[path].exists THEN [fs |-> fs, err |-> ErrNotExist]
    ELSE IF ro = "fail" THEN [fs |-> fs, err |-> ErrIO]
    ELSE [fs |-> [fs EXCEPT ![path] = NoFile], err |-> Nil]

\* ------------------------------------------------------------- go-keyring
\* The vault of the operating system: works says whether its calls succeed,
\* items is what it holds, as <<service, key, value>> triples.
ErrKeyring == "keyring unavailable"
ErrKeyNotFound == "secret not found in keyring"

\* keyring.Set(service, user, password)
KeyringSet(kr, service, user, password) ==
    IF ~kr.works THEN [kr |-> kr, err |-> ErrKeyring]
    ELSE [kr |-> [kr EXCEPT !.items =
                     {it \in kr.items : ~(it[1] = service /\ it[2] = user)}
                         \cup {<<service, user, password>>}],
          err |-> Nil]

\* keyring.Get(service, user)
KeyringGet(kr, service, user) ==
    LET found == {it \in kr.items : it[1] = service /\ it[2] = user}
    IN IF ~kr.works THEN [value |-> "", err |-> ErrKeyring]
       ELSE IF found = {} THEN [value |-> "", err |-> ErrKeyNotFound]
       ELSE [value |-> (CHOOSE it \in found : TRUE)[3], err |-> Nil]

\* keyring.Delete(service, user)
KeyringDelete(kr, service, user) ==
    IF ~kr.works THEN [kr |-> kr, err |-> ErrKeyring]
    ELSE [kr |-> [kr EXCEPT !.items =
                     {it \in kr.items : ~(it[1] = service /\ it[2] = user)}],
          err |-> Nil]

\* supportsKeyring(): sets and reads back a test value, then removes it
supportsKeyring(kr) ==
    LET testKey == "tabd-test-key"
        testValue == "test"
        s == KeyringSet(kr, "tabd-native-host", testKey, testValue)
        g == KeyringGet(s.kr, "tabd-native-host", testKey)
        d == KeyringDelete(s.kr, "tabd-native-host", testKey)
    IN IF s.err # Nil THEN [ok |-> FALSE, kr |-> s.kr]
       ELSE IF g.err # Nil \/ g.value # testValue THEN [ok |-> FALSE, kr |-> s.kr]
       ELSE [ok |-> TRUE, kr |-> d.kr]

\* ------------------------------------------------------------------ state
Procs == {"p1"}
\* the native host started by the browser, and a `getclipboard` invocation
Host == "host"
Reader == "getclipboard"
\* two processes that use the same installation directory at the same time
ConcProcs == {"p1", "p2"}
AllProcs == Procs \cup ConcProcs \cup {Host, Reader}

VARIABLES
    files,      \* the file system: path -> [exists, data]
    up,         \* up[p]: process p holds an EncryptedFileStorage
    pass,       \* pass[p]: EncryptedFileStorage.passphrase of process p
    randOK,     \* the random source of the machine works
    nrand,      \* number of rand.Read calls that delivered bytes
    last,       \* what the most recent step was and what it returned
    boxes,      \* the table of the ideal cipher (see the head of the module)
    nops,       \* storage calls made
    nfaults,    \* failures and outside changes so far
    written,    \* history: per path, the last record a Store wrote completely
    stored,     \* history: per key string, the blob of the last Store if it
                \* succeeded and no Store or Delete of that key followed, and
                \* whether a Delete of the key succeeded with no successful
                \* Store of it since, and the blob of the last Store of the
                \* key that succeeded
    secret,     \* history: the first root secret handed out
    encLog,     \* history: the results of all encrypt calls, in order
    keyring,    \* the vault of the operating system: [works, items]
    unsaved,    \* history: the root secrets whose os.WriteFile failed
    nstarts,    \* history: number of process starts so far
    inflight,   \* inflight[p]: the os.WriteFile process p is in the middle of
    starting,   \* starting[p]: process p is inside generateOrRetrievePassphrase,
                \* after its os.ReadFile found no secret it could read
    pipe,       \* the standard input of the native host and what the sender
                \* has done with it
    loop        \* the message loop of the native host and what it has done

vars == <<files, up, pass, boxes, randOK, nrand, last, nops, nfaults, written, stored, secret, encLog,
          keyring, unsaved, nstarts, inflight, starting, pipe, loop>>

\* the native messaging side of the state
loopvars == <<pipe, loop>>

\* crashed: the process died in the middle of the last write to the path;
\* prev: the path held a complete record when that write began
NoRecord ==
    [set |-> FALSE, data |-> <<>>, plain |-> <<>>, pass |-> <<>>, epoch |-> 0,
     crashed |-> FALSE, prev |-> FALSE]

\* no write in progress
NoWrite ==
    [active |-> FALSE, key |-> <<>>, path |-> <<>>, data |-> <<>>, plain |-> <<>>,
     pass |-> <<>>, pos |-> 0, prev |-> FALSE, torn |-> FALSE]
NoBlob == [set |-> FALSE, data |-> <<>>]

\* process p is not inside generateOrRetrievePassphrase
NotStarting == [active |-> FALSE, readFailed |-> FALSE]

\* standard input before the sender has written anything: buf is what was
\* written and not yet read, consumed the number of bytes read so far, sent
\* the number written so far, bounds the offsets in the stream at which the
\* sender began or ended a frame, nframes the number of frames written
NoInput ==
    [buf |-> <<>>, closed |-> FALSE, broken |-> FALSE, consumed |-> 0, sent |-> 0,
     bounds |-> {0}, nframes |-> 0]

\* the native host before run is called: pc is the place in run, msg and err
\* what the last readMessage returned, got the number of messages readMessage
\* has returned, answered the number of responses sendMessage has written,
\* calls the number of storage calls that were begun and have returned
NotRunning ==
    [pc |-> "off", msg |-> <<>>, err |-> Nil, got |-> 0, answered |-> 0, calls |-> 0]

\* the fields every step reports; a step overrides those it uses
Step(op, p) ==
    [op |-> op, proc |-> p, key |-> <<>>, path |-> <<>>, arg |-> <<>>,
     out |-> <<>>, err |-> Nil, raw |-> <<>>, enc |-> <<>>, pass |-> <<>>,
     steps |-> <<>>, failed |-> {}, fatal |-> FALSE, existed |-> FALSE,
     generated |-> FALSE, backend |-> "none",
     handler |-> "none", msg |-> <<>>, data |-> ZeroData, resp |-> "none",
     herr |-> Nil, exit |-> 0, during |-> FALSE, prev |-> FALSE, torn |-> FALSE]

\* a fresh installation: no file of the program exists, no process runs
Fresh ==
    /\ files = [q \in Paths |-> NoFile]
    /\ up = [p \in AllProcs |-> FALSE]
    /\ pass = [p \in AllProcs |-> <<>>]
    /\ boxes = <<>>
    /\ randOK = TRUE
    /\ nrand = 0
    /\ last = Step("init", "none")
    /\ nops = 0
    /\ nfaults = 0
    /\ written = [q \in Paths |-> NoRecord]
    /\ stored = [k \in AllKeys |-> [set |-> FALSE, data |-> <<>>, deleted |-> FALSE,
                                    ever |-> FALSE, good |-> <<>>]]
    /\ secret = NoBlob
    /\ encLog = <<>>
    /\ unsaved = {}
    /\ nstarts = 0
    /\ inflight = [p \in AllProcs |-> NoWrite]
    /\ starting = [p \in AllProcs |-> NotStarting]
    /\ pipe = NoInput
    /\ loop = NotRunning

\* a fresh installation on a machine without a working OS vault
Init == Fresh /\ keyring = [works |-> FALSE, items |-> {}]

\* a fresh installation on any machine, with a working OS vault or without
InitVault == Fresh /\ keyring \in {[works |-> w, items |-> {}] : w \in BOOLEAN}

\* a failure the environment injects into one call
ReadFails(fs, path, ro) == fs[path].exists /\ ro = "fail"
RemoveFails(fs, path, ro) == fs[path].exists /\ ro = "fail"
WriteFails(path, data, wo) ==
    /\ ParentDir(path) \in Dirs
    /\ wo.res = "openfail" \/ (wo.res = "partial" /\ wo.n < Len(data))
Count(b) == IF b THEN 1 ELSE 0

\* generateOrRetrievePassphrase(tabdDir)
\* the second half of generateOrRetrievePassphrase: a new passphrase is
\* generated and written; the error of os.WriteFile is dropped
generatePassphrase(fs, rr, wo) ==
    LET passphraseBytes == RandRead(MakeBytes(PassphraseBytes), rr)
        passphrase == EncodeToString(passphraseBytes)
        w == WriteFile(fs, PassphrasePath, passphrase, Mode0600, wo)
    IN IF rr.res = "fatal"
       THEN [passphrase |-> <<>>, fs |-> fs, fatal |-> TRUE, generated |-> FALSE,
             failed |-> {"rand.Read"}, faults |-> 0]
       ELSE [passphrase |-> passphrase, fs |-> w.fs, fatal |-> FALSE, generated |-> TRUE,
             failed |-> IF w.err # Nil THEN {"os.WriteFile"} ELSE {},
             faults |-> Count(WriteFails(PassphrasePath, passphrase, wo))]

generateOrRetrievePassphrase(fs, ro, rr, wo) ==
    LET r == ReadFile(fs, PassphrasePath, ro)
        g == generatePassphrase(fs, rr, wo)
    IN IF r.err = Nil
       THEN [passphrase |-> r.data, fs |-> fs, fatal |-> FALSE, generated |-> FALSE,
             failed |-> {}, faults |-> 0]
       ELSE [g EXCEPT !.failed = (IF r.err # ErrNotExist /\ ~g.fatal
                                  THEN {"os.ReadFile"} ELSE {}) \cup g.failed,
                      !.faults = Count(ReadFails(fs, PassphrasePath, ro)) + g.faults]

\* NewSecureStorage(tabdDir): a process starts (a process that was running
\* under this name has ended) and builds its storage.  The call of
\* supportsKeyring and the return of a KeyringStorage are commented out in the
\* source, so the vault is never asked and the storage is always the
\* EncryptedFileStorage.
Start(p) ==
    \E ro \in ReadOutcomes, rr \in RandOutcomes(randOK, nrand + 1), wo \in WriteOutcomes :
        LET g == generateOrRetrievePassphrase(files, ro, rr, wo)
        IN /\ ~inflight[p].active /\ ~starting[p].active
           /\ nstarts < MaxStarts
           /\ nfaults + g.faults <= MaxFaults
           /\ files' = g.fs
           /\ up' = [up EXCEPT ![p] = ~g.fatal]
           /\ pass' = [pass EXCEPT ![p] = g.passphrase]
           /\ last' = [Step("Start", p) EXCEPT !.pass = g.passphrase, !.fatal = g.fatal,
                                               !.failed = g.failed,
                                               !.generated = g.generated,
                                               !.backend = IF g.fatal THEN "none"
                                                           ELSE "file",
                                               !.existed = files[PassphrasePath].exists]
           /\ nfaults' = nfaults + g.faults
           /\ secret' = IF secret.set \/ g.fatal THEN secret
                        ELSE [set |-> TRUE, data |-> g.passphrase]
           /\ nrand' = nrand + Count(g.generated /\ rr.res = "ok")
           /\ unsaved' = IF g.generated /\ "os.WriteFile" \in g.failed
                         THEN unsaved \cup {g.passphrase} ELSE unsaved
           /\ nstarts' = nstarts + 1
           /\ UNCHANGED <<boxes, randOK, nops, written, stored, encLog, keyring, inflight, starting, pipe, loop>>

\* NewSecureStorage step by step, for processes that start at the same time.
\* First the os.ReadFile of generateOrRetrievePassphrase: when it returns the
\* contents of the secret file, NewSecureStorage returns with them; otherwise
\* the process goes on to generate a secret.
StartRead(p) ==
    \E ro \in ReadOutcomes :
        LET r == ReadFile(files, PassphrasePath, ro)
            faults == Count(ReadFails(files, PassphrasePath, ro))
        IN /\ ~inflight[p].active /\ ~starting[p].active
           /\ nstarts < MaxStarts
           /\ nfaults + faults <= MaxFaults
           /\ up' = [up EXCEPT ![p] = r.err = Nil]
           /\ pass' = [pass EXCEPT ![p] = r.data]
           /\ starting' = [starting EXCEPT ![p] =
                              [active |-> r.err # Nil,
                               readFailed |-> r.err \notin {Nil, ErrNotExist}]]
           /\ last' = IF r.err = Nil
                      THEN [Step("Start", p) EXCEPT !.pass = r.data, !.backend = "file",
                                                    !.existed = TRUE]
                      ELSE [Step("StartRead", p) EXCEPT
                               !.existed = files[PassphrasePath].exists]
           /\ nfaults' = nfaults + faults
           /\ secret' = IF secret.set \/ r.err # Nil THEN secret
                        ELSE [set |-> TRUE, data |-> r.data]
           /\ nstarts' = nstarts + 1
           /\ UNCHANGED <<files, boxes, randOK, nrand, nops, written, stored, encLog,
                          keyring, unsaved, inflight, pipe, loop>>

\* Then rand.Read, the encoding, os.WriteFile and the return of
\* NewSecureStorage with the generated secret.
StartWrite(p) ==
    \E rr \in RandOutcomes(randOK, nrand + 1), wo \in WriteOutcomes :
        LET g == generatePassphrase(files, rr, wo)
        IN /\ starting[p].active
           /\ nfaults + g.faults <= MaxFaults
           /\ files' = g.fs
           /\ up' = [up EXCEPT ![p] = ~g.fatal]
           /\ pass' = [pass EXCEPT ![p] = g.passphrase]
           /\ starting' = [starting EXCEPT ![p] = NotStarting]
           /\ last' = [Step("Start", p) EXCEPT
                          !.pass = g.passphrase, !.fatal = g.fatal,
                          !.failed = (IF starting[p].readFailed /\ ~g.fatal
                                      THEN {"os.ReadFile"} ELSE {}) \cup g.failed,
                          !.generated = g.generated,
                          !.backend = IF g.fatal THEN "none" ELSE "file",
                          !.existed = files[PassphrasePath].exists]
           /\ nfaults' = nfaults + g.faults
           /\ secret' = IF secret.set \/ g.fatal THEN secret
                        ELSE [set |-> TRUE, data |-> g.passphrase]
           /\ nrand' = nrand + Count(g.generated /\ rr.res = "ok")
           /\ unsaved' = IF g.generated /\ "os.WriteFile" \in g.failed
                         THEN unsaved \cup {g.passphrase} ELSE unsaved
           /\ UNCHANGED <<boxes, randOK, nops, written, stored, encLog, keyring, nstarts,
                          inflight, pipe, loop>>

\* EncryptedFileStorage.Store(key, data), called by Caller, which adds what
\* it does with the result
StoreCall(p, key, data, Caller(_)) ==
    \E rs \in RandOutcomes(randOK, nrand + 1), rn \in RandOutcomes(randOK, nrand + 2),
       wo \in WriteOutcomes :
        LET e == encrypt(boxes, pass[p], data, rs, rn)
            filePath == FilePath(key)
            w == WriteFile(files, filePath, e.out, Mode0600, wo)
            returned == ~e.fatal /\ e.err = Nil
            err == IF e.err # Nil THEN WrapEncrypt(e.err) ELSE w.err
            faults == Count(returned /\ WriteFails(filePath, e.out, wo))
        IN /\ up[p] /\ ~inflight[p].active
           /\ nops < MaxOps
           /\ nfaults + faults <= MaxFaults
           /\ files' = IF returned THEN w.fs ELSE files
           /\ up' = [up EXCEPT ![p] = ~e.fatal]
           /\ boxes' = e.boxes
           /\ last' = Caller([Step("Store", p) EXCEPT
                          !.key = key, !.path = filePath, !.arg = data,
                          !.enc = e.out, !.pass = pass[p], !.fatal = e.fatal,
                          !.err = IF e.fatal THEN Nil ELSE err,
                          !.failed = e.failed \cup
                              (IF returned /\ w.err # Nil THEN {"os.WriteFile"} ELSE {}),
                          !.existed = files[filePath].exists])
           /\ nops' = nops + 1
           /\ nfaults' = nfaults + faults
           /\ written' = IF returned /\ w.err = Nil
                         THEN [written EXCEPT ![filePath] =
                                  [set |-> TRUE, data |-> e.out, plain |-> data,
                                   pass |-> pass[p], epoch |-> nstarts,
                                   crashed |-> FALSE, prev |-> FALSE]]
                         ELSE IF returned /\ w.fs # files
                         THEN [written EXCEPT ![filePath] = NoRecord]
                         ELSE written
           /\ stored' = [stored EXCEPT ![key] =
                            IF returned /\ w.err = Nil
                            THEN [set |-> TRUE, data |-> data, deleted |-> FALSE,
                                  ever |-> TRUE, good |-> data]
                            ELSE [stored[key] EXCEPT !.set = FALSE, !.data = <<>>]]
           /\ encLog' = IF returned
                        THEN Append(encLog, [key |-> key, pass |-> pass[p], plain |-> data,
                                             out |-> e.out])
                        ELSE encLog
           /\ nrand' = nrand + Count(rs.res = "ok") + Count(rs.res = "ok" /\ rn.res = "ok")
           /\ UNCHANGED <<pass, randOK, secret, keyring, unsaved, nstarts, inflight, starting>>

\* a direct call of the storage interface
Direct(step) == step

Store(p, key, data) == StoreCall(p, key, data, Direct) /\ UNCHANGED loopvars

\* EncryptedFileStorage.Retrieve(key), called by Caller
RetrieveCall(p, key, Caller(_)) ==
    \E ro \in ReadOutcomes :
        LET filePath == FilePath(key)
            r == ReadFile(files, filePath, ro)
            d == decrypt(boxes, pass[p], r.data)
            faults == Count(ReadFails(files, filePath, ro))
            writing(q) == inflight[q].active /\ inflight[q].path = filePath
        IN /\ up[p] /\ ~inflight[p].active
           /\ nops < MaxOps
           /\ nfaults + faults <= MaxFaults
           /\ last' = Caller([Step("Retrieve", p) EXCEPT
                          !.key = key, !.path = filePath, !.pass = pass[p],
                          !.raw = r.data,
                          !.out = IF r.err # Nil THEN <<>> ELSE d.out,
                          !.err = IF r.err # Nil THEN r.err ELSE d.err,
                          !.steps = IF r.err # Nil THEN <<>> ELSE d.steps,
                          !.failed = IF r.err # Nil THEN {"os.ReadFile"}
                                     ELSE IF d.err # Nil THEN {"decrypt"} ELSE {},
                          !.existed = files[filePath].exists,
                          !.during = \E q \in AllProcs \ {p} : writing(q)])
           /\ nops' = nops + 1
           /\ nfaults' = nfaults + faults
           /\ inflight' = [q \in AllProcs |->
                              IF q # p /\ writing(q) /\ r.err = Nil /\ d.err # Nil
                              THEN [inflight[q] EXCEPT !.torn = TRUE]
                              ELSE inflight[q]]
           /\ UNCHANGED <<files, pass, boxes, randOK, nrand, written, stored, secret, encLog, keyring, unsaved, nstarts, starting, pipe, loop>>

Retrieve(p, key) == RetrieveCall(p, key, Direct) /\ UNCHANGED up

\* EncryptedFileStorage.Delete(key)
Delete(p, key) ==
    \E ro \in RemoveOutcomes :
        LET filePath == FilePath(key)
            r == Remove(files, filePath, ro)
            faults == Count(RemoveFails(files, filePath, ro))
        IN /\ up[p] /\ ~inflight[p].active
           /\ nops < MaxOps
           /\ nfaults + faults <= MaxFaults
           /\ files' = r.fs
           /\ last' = [Step("Delete", p) EXCEPT
                          !.key = key, !.path = filePath, !.err = r.err,
                          !.failed = IF r.err # Nil THEN {"os.Remove"} ELSE {},
                          !.existed = files[filePath].exists]
           /\ nops' = nops + 1
           /\ nfaults' = nfaults + faults
           /\ written' = IF r.err = Nil THEN [written EXCEPT ![filePath] = NoRecord]
                         ELSE written
           /\ stored' = [stored EXCEPT ![key] =
                            [stored[key] EXCEPT
                                !.set = FALSE, !.data = <<>>,
                                !.deleted = (r.err = Nil) \/ stored[key].deleted]]
           /\ UNCHANGED <<up, pass, boxes, randOK, nrand, secret, encLog, keyring, unsaved, nstarts, inflight, starting, pipe, loop>>

\* ------------------------------------------------- Store, call by call
\* os.WriteFile is not one step of the operating system: the file is opened
\* and emptied, then written by one or more write calls, and other processes
\* run in between.

\* a write call that writes all that is left, wherever it was asked to stop
ChunkWhole(data, from, to) == Suffix(data, from)

\* the bytes one write call takes: those after the first `from`, up to `to`
Chunk(data, from, to) == [i \in 1..(to - from) |-> data[from + i]]

\* EncryptedFileStorage.Store(key, data) up to the point where os.WriteFile
\* has opened and emptied the file
StoreOpen(p, key, data) ==
    \E rs \in RandOutcomes(randOK, nrand + 1), rn \in RandOutcomes(randOK, nrand + 2) :
        LET e == encrypt(boxes, pass[p], data, rs, rn)
            filePath == FilePath(key)
            returned == ~e.fatal /\ e.err = Nil
        IN /\ up[p] /\ ~inflight[p].active
           /\ nops < MaxOps
           /\ files' = IF returned THEN OpenFile(files, filePath, Mode0600) ELSE files
           /\ up' = [up EXCEPT ![p] = ~e.fatal]
           /\ boxes' = e.boxes
           /\ inflight' = IF returned
                          THEN [inflight EXCEPT ![p] =
                                   [active |-> TRUE, key |-> key, path |-> filePath,
                                    data |-> e.out, plain |-> data, pass |-> pass[p],
                                    pos |-> 0,
                                    prev |-> written[filePath].set
                                             /\ files[filePath].data = written[filePath].data,
                                    torn |-> FALSE]]
                          ELSE inflight
           /\ last' = [Step("StoreOpen", p) EXCEPT
                          !.key = key, !.path = filePath, !.arg = data,
                          !.enc = e.out, !.pass = pass[p], !.fatal = e.fatal,
                          !.err = IF e.err # Nil THEN WrapEncrypt(e.err) ELSE Nil,
                          !.failed = e.failed,
                          !.existed = files[filePath].exists]
           /\ nops' = nops + 1
           /\ written' = IF returned THEN [written EXCEPT ![filePath] = NoRecord]
                         ELSE written
           /\ stored' = [stored EXCEPT ![key] = [stored[key] EXCEPT !.set = FALSE,
                                                                   !.data = <<>>]]
           /\ encLog' = IF returned
                        THEN Append(encLog, [key |-> key, pass |-> pass[p], plain |-> data,
                                             out |-> e.out])
                        ELSE encLog
           /\ nrand' = nrand + Count(rs.res = "ok") + Count(rs.res = "ok" /\ rn.res = "ok")
           /\ UNCHANGED <<pass, randOK, nfaults, secret, keyring, unsaved, nstarts, starting, pipe, loop>>

\* one write call of the os.WriteFile in progress: the file grows to n bytes
\* of the record; with the last byte written Store returns nil
StoreWrite(p) ==
    \E n \in CutLens \cup {Len(inflight[p].data)} :
        LET w == inflight[p]
            done == n = Len(w.data)
        IN /\ up[p] /\ w.active
           /\ n > w.pos /\ n <= Len(w.data)
           /\ files' = Write(files, w.path, w.pos, Chunk(w.data, w.pos, n))
           /\ inflight' = [inflight EXCEPT ![p] = IF done THEN NoWrite
                                                  ELSE [w EXCEPT !.pos = n]]
           /\ last' = IF done
                      THEN [Step("Store", p) EXCEPT
                               !.key = w.key, !.path = w.path, !.arg = w.plain,
                               !.enc = w.data, !.pass = w.pass, !.existed = TRUE,
                               !.prev = w.prev, !.torn = w.torn]
                      ELSE [Step("StoreWrite", p) EXCEPT !.key = w.key, !.path = w.path]
           /\ written' = IF done
                         THEN [written EXCEPT ![w.path] =
                                  [set |-> TRUE, data |-> w.data, plain |-> w.plain,
                                   pass |-> w.pass, epoch |-> nstarts,
                                   crashed |-> FALSE, prev |-> FALSE]]
                         ELSE written
           /\ stored' = IF done
                        THEN [stored EXCEPT ![w.key] =
                                 [set |-> TRUE, data |-> w.plain, deleted |-> FALSE,
                                  ever |-> TRUE, good |-> w.plain]]
                        ELSE stored
           /\ UNCHANGED <<up, pass, boxes, randOK, nrand, nops, nfaults, secret, encLog,
                          keyring, unsaved, nstarts, starting, pipe, loop>>

\* Process p dies in the middle of its os.WriteFile (it is killed, or the
\* machine goes down); the file keeps the bytes written so far.
Crash(p) ==
    LET w == inflight[p]
    IN /\ up[p] /\ w.active
       /\ nfaults < MaxFaults
       /\ up' = [up EXCEPT ![p] = FALSE]
       /\ inflight' = [inflight EXCEPT ![p] = NoWrite]
       /\ written' = [written EXCEPT ![w.path] =
                         [NoRecord EXCEPT !.crashed = TRUE, !.prev = w.prev]]
       /\ last' = [Step("Crash", p) EXCEPT !.key = w.key, !.path = w.path,
                                           !.prev = w.prev]
       /\ nfaults' = nfaults + 1
       /\ UNCHANGED <<files, pass, boxes, randOK, nrand, nops, stored, secret, encLog,
                      keyring, unsaved, nstarts, starting, pipe, loop>>

\* ------------------------------------------------------------ native host
\* the Status of the Response handleMessage builds: "error" when
\* saveClipboardData returned an error, "success" otherwise
ResponseAlwaysSuccess(err) == "success"

ResponseStatus(err) == IF err = Nil THEN "success" ELSE "error"

\* TabdNativeHost.handleMessage(messageData), with saveClipboardData: the
\* message is parsed; what was parsed is marshalled and stored under
\* "latest_clipboard"; the response is handed to sendMessage.  A message that
\* does not parse is answered with nothing.
\* u is what json.Unmarshal(messageData, &data) returned.
handleParsed(p, messageData, u) ==
    IF u.err # Nil
    THEN /\ up[p] /\ ~inflight[p].active
         /\ last' = [Step("handleMessage", p) EXCEPT
                        !.handler = "handleMessage", !.msg = messageData,
                        !.failed = {"json.Unmarshal"},
                        !.herr = "failed to parse message: " \o u.err]
         /\ UNCHANGED <<files, up, pass, boxes, randOK, nrand, nops, nfaults, written,
                        stored, secret, encLog, keyring, unsaved, nstarts, inflight,
                        starting>>
    ELSE StoreCall(p, LatestKey, Marshal(u.data),
                   LAMBDA st : [st EXCEPT
                        !.handler = "handleMessage", !.msg = messageData,
                        !.data = u.data,
                        !.resp = IF st.fatal THEN "none" ELSE ResponseStatus(st.err)])

handleMessage(p, messageData) == handleParsed(p, messageData, Unmarshal(messageData))

\* main with the argument getclipboard, after NewTabdNativeHost:
\* getClipboardData retrieves "latest_clipboard" and parses it; the data is
\* printed and the process exits with 0, or an error is printed to stderr and
\* the process exits with 1.
getClipboardData(p) ==
    /\ RetrieveCall(p, LatestKey,
                    LAMBDA st :
                        LET u == Unmarshal(st.out)
                        IN [st EXCEPT
                               !.handler = "getclipboard",
                               !.data = IF st.err = Nil /\ u.err = Nil THEN u.data
                                        ELSE ZeroData,
                               !.herr = IF st.err # Nil
                                        THEN "failed to retrieve clipboard data: " \o st.err
                                        ELSE IF u.err # Nil
                                        THEN "failed to unmarshal clipboard data: " \o u.err
                                        ELSE Nil,
                               !.exit = IF st.err = Nil /\ u.err = Nil THEN 0 ELSE 1])
    /\ up' = [up EXCEPT ![p] = FALSE]

\* ------------------------------------------------------- native messaging
\* Standard input is a stream of bytes.  The stream is kept as a sequence of
\* runs [v |-> byte, n |-> count], n copies of the byte v, so that a frame of
\* more than a megabyte is a short sequence.

\* the largest length prefix readMessage accepts
MaxMessageLen == 1024 * 1024

ErrEOF == "EOF"
ErrReadLength == "failed to read message length"
ErrInvalidLength == "invalid message length"
ErrReadData == "failed to read message data"

Run(v, n) == [v |-> v, n |-> n]
Single(codes) == [i \in 1..Len(codes) |-> Run(codes[i], 1)]

\* number of bytes of a stream
RECURSIVE RunsLen(_)
RunsLen(s) == IF s = <<>> THEN 0 ELSE Head(s).n + RunsLen(Tail(s))

\* the first k bytes of a stream (all of it when it is shorter)
RECURSIVE TakeBytes(_, _)
TakeBytes(s, k) ==
    IF k = 0 \/ s = <<>> THEN <<>>
    ELSE IF Head(s).n <= k THEN <<Head(s)>> \o TakeBytes(Tail(s), k - Head(s).n)
    ELSE <<Run(Head(s).v, k)>>

\* the stream without its first k bytes
RECURSIVE DropBytes(_, _)
DropBytes(s, k) ==
    IF k = 0 \/ s = <<>> THEN s
    ELSE IF Head(s).n <= k THEN DropBytes(Tail(s), k - Head(s).n)
    ELSE <<Run(Head(s).v, Head(s).n - k)>> \o Tail(s)

\* the bytes of a short stream, one by one
RECURSIVE Expand(_)
Expand(s) ==
    IF s = <<>> THEN <<>>
    ELSE [i \in 1..Head(s).n |-> Raw(Head(s).v)] \o Expand(Tail(s))

\* binary.LittleEndian: a uint32 as four bytes, and back
PutUint32(n) ==
    <<n % 256, (n \div 256) % 256, (n \div 65536) % 256, (n \div 16777216) % 256>>
Uint32(b) == b[1].v + 256 * b[2].v + 65536 * b[3].v + 16777216 * b[4].v

\* readMessage: length == 0 || length > 1024*1024
InvalidLength(length) == length = 0 \/ length > MaxMessageLen

\* TabdNativeHost.readMessage() on the input in = [buf, closed, broken]:
\* binary.Read of the four bytes of the length, the check of the length,
\* io.ReadFull of the message.  n is the number of bytes taken from the
\* stream.  A read of a broken input returns an error; a read that finds the
\* stream ended returns what is there, with io.EOF when that is nothing at
\* the place of a length.
readMessage(in) ==
    LET avail == RunsLen(in.buf)
        length == Uint32(Expand(TakeBytes(in.buf, 4)))
    IN IF in.broken THEN [msg |-> <<>>, err |-> ErrReadLength, n |-> 0]
       ELSE IF avail = 0 THEN [msg |-> <<>>, err |-> ErrEOF, n |-> 0]
       ELSE IF avail < 4 THEN [msg |-> <<>>, err |-> ErrReadLength, n |-> avail]
       ELSE IF InvalidLength(length) THEN [msg |-> <<>>, err |-> ErrInvalidLength, n |-> 4]
       ELSE IF avail - 4 < length THEN [msg |-> <<>>, err |-> ErrReadData, n |-> avail]
       ELSE [msg |-> TakeBytes(DropBytes(in.buf, 4), length), err |-> Nil, n |-> 4 + length]

\* readMessage does not return while the stream is open and holds fewer
\* bytes than the read in progress asks for
ReadReturns(in) ==
    LET avail == RunsLen(in.buf)
    IN \/ in.broken
       \/ in.closed
       \/ /\ avail >= 4
          /\ LET length == Uint32(Expand(TakeBytes(in.buf, 4)))
             IN InvalidLength(length) \/ avail - 4 >= length

\* json.Unmarshal of a message of the stream: the decoder stops with an error
\* at a first byte that does not open an object
UnmarshalRuns(m) ==
    IF m = <<>> \/ m[1].v # 123 THEN [data |-> ZeroData, err |-> ErrJSON]
    ELSE Unmarshal(Expand(m))

\* main: host.run() after NewTabdNativeHost returned the host
RunBegin ==
    /\ up[Host] /\ loop.pc = "off"
    /\ loop' = [loop EXCEPT !.pc = "read"]
    /\ last' = Step("run", Host)
    /\ UNCHANGED <<files, up, pass, boxes, randOK, nrand, nops, nfaults, written, stored,
                   secret, encLog, keyring, unsaved, nstarts, inflight, starting, pipe>>

\* run: messageData, err := t.readMessage(); io.EOF leaves the loop, another
\* error goes to the log, a message goes to handleMessage
ReadStep ==
    /\ up[Host] /\ loop.pc = "read"
    /\ ReadReturns(pipe)
    /\ \E r \in {readMessage(pipe)} :
        /\ pipe' = [pipe EXCEPT !.buf = DropBytes(pipe.buf, r.n),
                                !.consumed = pipe.consumed + r.n]
        /\ loop' = [loop EXCEPT
                       !.pc = IF r.err = ErrEOF THEN "returned"
                              ELSE IF r.err # Nil THEN "log" ELSE "handle",
                       !.msg = r.msg, !.err = r.err,
                       !.got = loop.got + Count(r.err = Nil)]
        /\ last' = [Step("readMessage", Host) EXCEPT !.err = r.err, !.msg = r.msg]
        /\ UNCHANGED <<files, up, pass, boxes, randOK, nrand, nops, nfaults, written,
                       stored, secret, encLog, keyring, unsaved, nstarts, inflight,
                       starting>>

\* run: log.Printf("Error reading message: %v", err); continue
LogStep ==
    /\ up[Host] /\ loop.pc = "log"
    /\ loop' = [loop EXCEPT !.pc = "read"]
    /\ last' = [Step("log", Host) EXCEPT !.err = loop.err]
    /\ UNCHANGED <<files, up, pass, boxes, randOK, nrand, nops, nfaults, written, stored,
                   secret, encLog, keyring, unsaved, nstarts, inflight, starting, pipe>>

\* run: t.handleMessage(messageData); its error goes to the log
HandleStep ==
    /\ loop.pc = "handle"
    /\ handleParsed(Host, loop.msg, UnmarshalRuns(loop.msg))
    /\ loop' = [loop EXCEPT
                   !.pc = IF last'.fatal THEN "dead" ELSE "read",
                   !.answered = loop.answered + Count(last'.resp # "none"),
                   !.calls = loop.calls + Count(last'.op = "Store" /\ ~last'.fatal)]
    /\ UNCHANGED pipe

\* ------------------------------------------------------------ the sender
\* number of frames the sender writes in one behaviour
MaxFrames == 2

\* a frame: the length of the body as a uint32, then the body
Frame(body) == Single(PutUint32(RunsLen(body))) \o body

\* a byte that opens no object
Filler == 65

\* the bodies the sender frames: a message the host stores
\* ({"text":"b","x":1}), a message that does not parse ({"type":"co), and a
\* body of more than MaxMessageLen bytes that begins with the bytes of a
\* frame of the first message and goes on with the four bytes of the number
\* MaxMessageLen and as many filler bytes
GoodBody == Single(<<123, 34, 116, 101, 120, 116, 34, 58, 34, 98, 34, 44, 34, 120, 34, 58, 49, 125>>)
BadBody == Single(<<123, 34, 116, 121, 112, 101, 34, 58, 34, 99, 111>>)
LongBody ==
    Frame(GoodBody) \o Single(PutUint32(MaxMessageLen)) \o <<Run(Filler, MaxMessageLen)>>

\* the frames the sender writes, and a frame without a body whose length is 0
Frames == {Frame(GoodBody), Frame(BadBody), Frame(LongBody), Single(PutUint32(0))}

\* places inside a frame at which the sender may stop for good: inside the
\* length, and inside the body
StopAt == {2, 6}

\* the sender writes a frame
Send(f) ==
    /\ ~pipe.closed /\ pipe.nframes < MaxFrames
    /\ pipe' = [pipe EXCEPT !.buf = pipe.buf \o f,
                            !.sent = pipe.sent + RunsLen(f),
                            !.bounds = pipe.bounds \cup {pipe.sent + RunsLen(f)},
                            !.nframes = pipe.nframes + 1]
    /\ last' = [Step("Send", "sender") EXCEPT !.msg = f]
    /\ UNCHANGED <<files, up, pass, boxes, randOK, nrand, nops, nfaults, written, stored,
                   secret, encLog, keyring, unsaved, nstarts, inflight, starting, loop>>

\* the sender writes the first k bytes of a frame and closes the pipe
SendPart(f, k) ==
    /\ ~pipe.closed /\ pipe.nframes < MaxFrames
    /\ k < RunsLen(f)
    /\ pipe' = [pipe EXCEPT !.buf = pipe.buf \o TakeBytes(f, k),
                            !.sent = pipe.sent + k,
                            !.nframes = pipe.nframes + 1,
                            !.closed = TRUE]
    /\ last' = [Step("SendPart", "sender") EXCEPT !.msg = TakeBytes(f, k)]
    /\ UNCHANGED <<files, up, pass, boxes, randOK, nrand, nops, nfaults, written, stored,
                   secret, encLog, keyring, unsaved, nstarts, inflight, starting, loop>>

\* the sender closes the pipe
CloseStdin ==
    /\ ~pipe.closed
    /\ pipe' = [pipe EXCEPT !.closed = TRUE]
    /\ last' = Step("Close", "sender")
    /\ UNCHANGED <<files, up, pass, boxes, randOK, nrand, nops, nfaults, written, stored,
                   secret, encLog, keyring, unsaved, nstarts, inflight, starting, loop>>

\* Standard input stops working: from now on every read of it returns an
\* error that is not io.EOF (the descriptor is not valid, the device fails).
BreakStdin ==
    /\ ~pipe.broken
    /\ nfaults < MaxFaults
    /\ pipe' = [pipe EXCEPT !.broken = TRUE]
    /\ last' = Step("BreakStdin", "none")
    /\ nfaults' = nfaults + 1
    /\ UNCHANGED <<files, up, pass, boxes, randOK, nrand, nops, written, stored,
                   secret, encLog, keyring, unsaved, nstarts, inflight, starting, loop>>

\* ------------------------------------------------------------ environment
\* Something other than this program inverts one bit of a stored record.
TamperBits == {0, 7}
TamperOffsets(data) ==
    {o \in {0, SaltLen + NonceLen, Len(data) - 1} :
        o >= 0 /\ o < Len(data)}

Tamper(path) ==
    \E bit \in TamperBits : \E off \in TamperOffsets(files[path].data) :
        /\ files[path].exists
        /\ nfaults < MaxFaults
        /\ files' = [files EXCEPT ![path].data = FlipBit(files[path].data, off, bit)]
        /\ last' = [Step("Tamper", "none") EXCEPT !.path = path]
        /\ nfaults' = nfaults + 1
        /\ UNCHANGED <<up, pass, boxes, randOK, nrand, nops, written, stored, secret, encLog, keyring, unsaved, nstarts, inflight, starting, pipe, loop>>

\* The root-secret file is lost (removed by something other than this program).
LoseSecret ==
    /\ files[PassphrasePath].exists
    /\ nfaults < MaxFaults
    /\ files' = [files EXCEPT ![PassphrasePath] = NoFile]
    /\ last' = [Step("LoseSecret", "none") EXCEPT !.path = PassphrasePath]
    /\ nfaults' = nfaults + 1
    /\ UNCHANGED <<up, pass, boxes, randOK, nrand, nops, written, stored, secret, encLog, keyring, unsaved, nstarts, inflight, starting, pipe, loop>>

\* Something other than this program gives an existing file a wider mode.
Widen(path) ==
    /\ files[path].exists /\ files[path].mode # Mode0644
    /\ nfaults < MaxFaults
    /\ files' = [files EXCEPT ![path].mode = Mode0644]
    /\ last' = [Step("Widen", "none") EXCEPT !.path = path]
    /\ nfaults' = nfaults + 1
    /\ UNCHANGED <<up, pass, boxes, randOK, nrand, nops, written, stored, secret, encLog, keyring, unsaved, nstarts, inflight, starting, pipe, loop>>

\* The random source of the machine stops working.
BreakRandom ==
    /\ randOK
    /\ nfaults < MaxFaults
    /\ randOK' = FALSE
    /\ last' = Step("BreakRandom", "none")
    /\ nfaults' = nfaults + 1
    /\ UNCHANGED <<files, up, pass, boxes, nrand, nops, written, stored, secret, encLog, keyring, unsaved, nstarts, inflight, starting, pipe, loop>>

\* ---------------------------------------------------------- specifications
StartStep == \E p \in Procs : Start(p)
StoreStep == \E p \in Procs, k \in Keys, d \in Blobs : Store(p, k, d)
RetrieveStep == \E p \in Procs, k \in Keys : Retrieve(p, k)
DeleteStep == \E p \in Procs, k \in Keys : Delete(p, k)
TamperStep == \E k \in Keys : Tamper(FilePath(k))
WidenStep == \E q \in Paths : Widen(q)

\* processes starting and calling the storage, failures, outside changes
Next ==
    \/ StartStep
    \/ StoreStep
    \/ RetrieveStep
    \/ DeleteStep
    \/ TamperStep
    \/ WidenStep
    \/ LoseSecret
    \/ BreakRandom

Spec == Init /\ [][Next]_vars

\* one storage instance, never restarted, nothing but storage calls (with the
\* I/O failures they may meet)
FirstStart == (\A p \in Procs : ~up[p]) /\ nstarts = 0 /\ StartStep

NextOps ==
    \/ FirstStart
    \/ StoreStep
    \/ RetrieveStep
    \/ DeleteStep

SpecOps == Init /\ [][NextOps]_vars

\* the same on any machine, whatever the state of its OS vault
SpecVault == InitVault /\ [][NextOps]_vars

\* processes starting, ending and calling the storage; no outside events
NextRestart ==
    \/ StartStep
    \/ StoreStep
    \/ RetrieveStep
    \/ DeleteStep

SpecRestart == Init /\ [][NextRestart]_vars

\* the native host handling messages and getclipboard invocations reading
\* what it saved, with the I/O failures they may meet
HostStart == Start(Host)
MessageStep == \E m \in Messages : handleMessage(Host, m) /\ UNCHANGED loopvars
ReaderStart == Start(Reader)
GetClipboardStep == getClipboardData(Reader)

NextHost ==
    \/ HostStart
    \/ MessageStep
    \/ ReaderStart
    \/ GetClipboardStep

SpecHost == Init /\ [][NextHost]_vars

\* two processes on one installation directory: p1 stores, call by call, and
\* may die while writing; both retrieve
ConcKeys == { <<"a">> }
ConcStart == \E p \in ConcProcs : Start(p)
StoreOpenStep == \E k \in ConcKeys, d \in Blobs : StoreOpen("p1", k, d)
StoreWriteStep == StoreWrite("p1")
CrashStep == Crash("p1")
ConcRetrieveStep == \E p \in ConcProcs, k \in ConcKeys : Retrieve(p, k)

NextConc ==
    \/ ConcStart
    \/ StoreOpenStep
    \/ StoreWriteStep
    \/ CrashStep
    \/ ConcRetrieveStep

SpecConc == Init /\ [][NextConc]_vars

\* two processes that start at the same time on one installation directory
\* and then store and retrieve
FirstUseRead == \E p \in ConcProcs : ~up[p] /\ StartRead(p)
FirstUseWrite == \E p \in ConcProcs : StartWrite(p)
FirstUseStore == \E p \in ConcProcs, k \in ConcKeys, d \in Blobs : Store(p, k, d)
FirstUseRetrieve == \E p \in ConcProcs, k \in ConcKeys : Retrieve(p, k)

NextFirstUse ==
    \/ FirstUseRead
    \/ FirstUseWrite
    \/ FirstUseStore
    \/ FirstUseRetrieve

SpecFirstUse == Init /\ [][NextFirstUse]_vars

\* two processes on one installation directory that both store, call by
\* call, each under a key string of its own that names the same file, may die
\* while writing, and retrieve
MixKeys == { <<"a">>, <<".", "a">> }
MixStart == \E p \in ConcProcs : ~up[p] /\ Start(p)
MixOpen ==
    \E d \in Blobs : StoreOpen("p1", <<"a">>, d) \/ StoreOpen("p2", <<".", "a">>, d)
MixWrite == \E p \in ConcProcs : StoreWrite(p)
MixCrash == \E p \in ConcProcs : Crash(p)
MixRetrieve == \E p \in ConcProcs, k \in MixKeys : Retrieve(p, k)

NextMix ==
    \/ MixStart
    \/ MixOpen
    \/ MixWrite
    \/ MixCrash
    \/ MixRetrieve

SpecMix == Init /\ [][NextMix]_vars

\* the native host from its start to the return of run, its sender, and the
\* failures of the storage calls and of standard input
LoopStart == loop.pc = "off" /\ ~up[Host] /\ Start(Host)
SendStep == \E f \in Frames : Send(f)
SendPartStep == \E f \in Frames, k \in StopAt : SendPart(f, k)
HostStep ==
    \/ LoopStart
    \/ RunBegin
    \/ ReadStep
    \/ LogStep
    \/ HandleStep

NextLoop ==
    \/ HostStep
    \/ SendStep
    \/ SendPartStep
    \/ CloseStdin
    \/ BreakStdin

SpecLoop == Init /\ [][NextLoop]_vars

\* the same where the host process, once it is in the loop of run, is never
\* kept from its next read of standard input nor from writing its log: the
\* process is one goroutine that the operating system keeps scheduling
SpecLoopFair ==
    Init /\ [][NextLoop]_vars /\ WF_vars(RunBegin) /\ WF_vars(ReadStep) /\ WF_vars(LogStep)

\* ------------------------------------------------------------------ claims
\* the last step was a Retrieve whose os.ReadFile delivered the file
ReadDone == last.op = "Retrieve" /\ last.existed /\ last.err # ErrIO

\* a differs from b in exactly one bit, at an offset from `from` on
OneBitOff(a, b, from) ==
    /\ Len(a) = Len(b)
    /\ \E off \in from..(Len(b) - 1) : \E bit \in 0..7 : a = FlipBit(b, off, bit)

\* C1: after a Store(k, y) that returned no error, the next Retrieve(k), with
\* no Store or Delete of k in between, returns exactly y (the read of the file
\* itself not failing).
C1_StoreThenRetrieve ==
    (last.op = "Retrieve" /\ stored[last.key].set /\ last.err # ErrIO)
        => (last.err = Nil /\ last.out = stored[last.key].data)

\* C2: whatever encrypt returns for a blob b decrypts, under the same root
\* secret, to exactly b without error, for every salt and nonce it used.
C2_RoundTrip ==
    (last.op = "Store" /\ last.enc # <<>>)
        => LET d == decrypt(boxes, last.pass, last.enc)
           IN d.err = Nil /\ d.out = last.arg

C2_Witness ==
    /\ last.op = "Store" /\ last.enc # <<>> /\ last.arg = <<>>
    /\ decrypt(boxes, last.pass, last.enc).err = Nil

\* C3: a Retrieve that reads a record a Store wrote, with one bit changed at
\* offset 28 or later, fails with the authentication error and returns no
\* plaintext.
C3_TamperDetected ==
    (ReadDone /\ written[last.path].set
        /\ OneBitOff(last.raw, written[last.path].data, SaltLen + NonceLen))
        => (last.err = ErrOpen /\ last.out = <<>>)

C3_Witness ==
    /\ ReadDone /\ written[last.path].set
    /\ OneBitOff(last.raw, written[last.path].data, SaltLen + NonceLen)
    /\ last.pass = written[last.path].pass
    /\ last.err = ErrOpen

\* C4: every call of generateOrRetrievePassphrase after the first returns the
\* value the first one returned, and a record a Store wrote completely is
\* retrieved unchanged by any later process.
C4_PassphrasePersistence ==
    /\ (last.op = "Start" /\ ~last.fatal) => last.pass = secret.data
    /\ (ReadDone /\ written[last.path].set /\ last.raw = written[last.path].data)
          => (last.err = Nil /\ last.out = written[last.path].plain)

\* C5: Store(b, y) and Delete(b) leave the record of every other key string
\* a as it was.
C5_KeyIsolation ==
    [][last'.op \in {"Store", "Delete"}
          => \A a \in Keys \ {last'.key} :
                 files[FilePath(a)].exists => files'[FilePath(a)] = files[FilePath(a)]]_vars

\* C6: Retrieve(k) and Delete(k) of a key without a file return the not-found
\* error, Retrieve returns no data, and no file is created or changed.
C6_NotFound ==
    [][(last'.op \in {"Retrieve", "Delete"} /\ ~files[last'.path].exists)
          => (last'.err = ErrNotExist /\ last'.out = <<>> /\ files' = files)]_vars

C6_Witness == last.op = "Delete" /\ ~last.existed /\ last.err = ErrNotExist

\* C7: decrypt of a record shorter than 28 bytes returns the invalid-data
\* error and no plaintext, and makes no cryptographic call.
C7_ShortRecordRejected ==
    (ReadDone /\ Len(last.raw) < 28)
        => (last.err = ErrInvalidData /\ last.out = <<>> /\ last.steps = <<>>)

C7_Witness ==
    ReadDone /\ Len(last.raw) = 27 /\ last.err = ErrInvalidData /\ last.steps = <<>>

\* C8: Retrieve of an unaltered record that was written under another root
\* secret fails with the authentication error, which is not the invalid-data
\* error, and returns no plaintext.
C8_WrongKeyDetected ==
    (ReadDone /\ written[last.path].set /\ last.raw = written[last.path].data
        /\ written[last.path].pass # last.pass)
        => (last.err = ErrOpen /\ last.err # ErrInvalidData /\ last.out = <<>>)

C8_Witness ==
    /\ ReadDone /\ written[last.path].set /\ last.raw = written[last.path].data
    /\ written[last.path].pass # last.pass
    /\ files[PassphrasePath].exists /\ files[PassphrasePath].data = last.pass
    /\ last.err = ErrOpen

\* C9: two encrypt calls on the same plaintext under the same root secret
\* never return the same record, and both records decrypt to the plaintext.
C9_RecordsDiffer ==
    \A i \in 1..Len(encLog) : \A j \in 1..Len(encLog) :
        (i < j /\ encLog[i].pass = encLog[j].pass /\ encLog[i].plain = encLog[j].plain)
            => /\ encLog[i].out # encLog[j].out
               /\ decrypt(boxes, encLog[i].pass, encLog[i].out).out = encLog[i].plain
               /\ decrypt(boxes, encLog[j].pass, encLog[j].out).out = encLog[j].plain

C9_Witness ==
    /\ Len(encLog) >= 2
    /\ encLog[1].pass = encLog[2].pass /\ encLog[1].plain = encLog[2].plain
    /\ encLog[1].out # encLog[2].out
    /\ decrypt(boxes, encLog[2].pass, encLog[2].out).err = Nil

\* C10: a Store, Retrieve or Delete in which an internal step failed returns
\* an error to its caller.
C10_ErrorsPropagate ==
    (last.op \in {"Store", "Retrieve", "Delete"} /\ last.failed # {})
        => (~last.fatal /\ last.err # Nil)

\* C11: a call of generateOrRetrievePassphrase that finds the secret file
\* existing returns its contents verbatim, generates nothing and leaves the
\* file as it is, also when reading the file fails; so the file is written at
\* most once.
C11_SecretCreatedOnce ==
    [][(last'.op = "Start" /\ files[PassphrasePath].exists)
          => /\ ~last'.generated
             /\ last'.pass = files[PassphrasePath].data
             /\ files'[PassphrasePath] = files[PassphrasePath]]_vars

\* C12: NewSecureStorage returns the vault (keyring) variant when the probe
\* of the OS vault succeeds, and the file-backed variant only when it fails.
C12_BackendSelection ==
    (last.op = "Start" /\ ~last.fatal)
        => last.backend = (IF supportsKeyring(keyring).ok THEN "keyring" ELSE "file")

\* C14: a file the storage layer has just written (a record by Store, the
\* root secret by generateOrRetrievePassphrase) has mode 0600, also when the
\* file existed before with a wider mode.
C14_OwnerOnly ==
    /\ (last.op = "Store" /\ ~last.fatal /\ last.err = Nil)
          => files[last.path].mode = Mode0600
    /\ (last.op = "Start" /\ last.generated /\ "os.WriteFile" \notin last.failed)
          => files[PassphrasePath].mode = Mode0600

\* C17: when the first write of the root-secret file fails, the call still
\* returns the generated secret and no error; no later process start returns
\* that secret, and a record stored under it is not retrieved by a process
\* started later: Retrieve fails.
C17_UnsavedSecretLost ==
    [][/\ (last'.op = "Start" /\ last'.generated /\ "os.WriteFile" \in last'.failed)
            => (~last'.fatal /\ last'.err = Nil /\ last'.pass # <<>>
                /\ pass'[last'.proc] = last'.pass)
       /\ (last'.op = "Start" /\ ~last'.fatal) => last'.pass \notin unsaved
       /\ (last'.op = "Retrieve" /\ last'.existed /\ last'.err # ErrIO
             /\ written[last'.path].set /\ last'.raw = written[last'.path].data
             /\ written[last'.path].pass \in unsaved
             /\ written[last'.path].epoch < nstarts)
            => (last'.err = ErrOpen /\ last'.out = <<>>)]_vars

C17_Witness ==
    /\ ReadDone /\ written[last.path].set /\ last.raw = written[last.path].data
    /\ written[last.path].pass \in unsaved
    /\ written[last.path].epoch < nstarts
    /\ last.err = ErrOpen

\* C18: every record a completed Store wrote is plaintext length + 44 bytes
\* long, and decrypt answers every record shorter than 44 bytes, also those
\* of 28 to 43 bytes, with the invalid-data error.
C18_RecordLength ==
    /\ (last.op = "Store" /\ ~last.fatal /\ last.err = Nil)
          => /\ Len(files[last.path].data) = Len(last.arg) + SaltLen + NonceLen + TagSize
             /\ files[last.path].data = last.enc
    /\ (ReadDone /\ Len(last.raw) < SaltLen + NonceLen + TagSize)
          => (last.err = ErrInvalidData /\ last.out = <<>>)

\* C19: after a Delete(k) that returned no error every Retrieve(k) returns
\* not-found until the next successful Store(k, _), a second Delete(k) returns
\* not-found, and a Delete changes no other key's record and not the
\* root-secret file.
C19_DeleteLifecycle ==
    [][/\ (last'.op \in {"Retrieve", "Delete"} /\ last'.err # ErrIO
             /\ stored[last'.key].deleted)
            => last'.err = ErrNotExist
       /\ last'.op = "Delete"
            => /\ files'[PassphrasePath] = files[PassphrasePath]
               /\ \A a \in Keys \ {last'.key} :
                      stored[a].set => files'[FilePath(a)] = files[FilePath(a)]]_vars

\* C13: a getclipboard invocation outputs the clipboard data of the most
\* recent message whose save succeeded and exits with 0; when no save has
\* succeeded it outputs no data and exits with an error (the invocation's own
\* read of the record file not failing).
C13_HandOver ==
    (last.handler = "getclipboard" /\ last.op = "Retrieve" /\ last.err # ErrIO)
        => IF stored[LatestKey].ever
           THEN last.exit = 0 /\ last.data = Unmarshal(stored[LatestKey].good).data
           ELSE last.exit = 1 /\ last.data = ZeroData

\* C20: for a message that parses, the response handleMessage sends has the
\* status "success" exactly when the Store under "latest_clipboard" returned
\* no error and "error" exactly when it returned an error, and when the
\* status is "success" the file holds the record of the data.
C20_ResponseStatus ==
    (last.handler = "handleMessage" /\ last.op = "Store" /\ ~last.fatal)
        => /\ last.key = LatestKey
           /\ last.resp = "success" <=> last.err = Nil
           /\ last.resp = "error" <=> last.err # Nil
           /\ last.resp = "success"
                => LET d == decrypt(boxes, last.pass, files[last.path].data)
                   IN d.err = Nil /\ Unmarshal(d.out) = [data |-> last.data, err |-> Nil]

C20_Witness ==
    /\ last.handler = "handleMessage" /\ last.op = "Store" /\ ~last.fatal
    /\ last.resp = "error" /\ last.err = ErrIO

\* C15: with two processes and no locking, a Retrieve(k) that reads the file
\* while a Store(k, y) of the other process is between opening the file and
\* its last write reads a partial record and fails; this happens although k
\* held a complete record before the Store began and holds one after it ends.
C15_TornRead ==
    (ReadDone /\ last.during)
        => (last.err \in {ErrInvalidData, ErrOpen} /\ last.out = <<>>)

C15_Witness ==
    /\ last.op = "Store" /\ last.err = Nil
    /\ last.prev /\ last.torn
    /\ written[last.path].set /\ files[last.path].data = written[last.path].data
    /\ decrypt(boxes, last.pass, files[last.path].data).err = Nil

\* C16: when the process dies part-way through the file write of Store(k, y),
\* the file holds neither the record that was there nor the new one, and
\* Retrieve(k) after the restart returns an error and no data.
C16_CrashLosesBoth ==
    (ReadDone /\ written[last.path].crashed)
        => /\ last.err \in {ErrInvalidData, ErrOpen} /\ last.out = <<>>
           /\ Len(last.raw) < SaltLen + NonceLen + TagSize

C16_Witness ==
    /\ ReadDone /\ last.proc = "p1"
    /\ written[last.path].crashed /\ written[last.path].prev
    /\ last.err # Nil /\ last.out = <<>>

\* C22: when two processes have called NewSecureStorage at the same time on a
\* directory without a secret file and both have returned (with no I/O
\* failure), both hold the same root secret and it is the content of the
\* secret file.
C22_OneRootSecret ==
    (/\ nfaults = 0
     /\ \A p \in ConcProcs : up[p] /\ ~starting[p].active)
        => \A p \in ConcProcs : /\ pass[p] = files[PassphrasePath].data
                                 /\ pass[p] = secret.data

\* C23: a Retrieve(k) that returns no error returns a blob that was the
\* argument of a Store(k, _) called before it or running at the same time,
\* whatever the processes, their interleaving and their crashes; a partial or
\* mixed record is an error.
C23_NoFabricatedData ==
    (last.op = "Retrieve" /\ last.err = Nil)
        => \E i \in 1..Len(encLog) :
               encLog[i].key = last.key /\ encLog[i].plain = last.out

\* the same with the file in the place of the key string: the blob was the
\* argument of a Store whose key names the file that was read, and the record
\* read is the whole record that Store wrote
RetrievedWasStoredInFile ==
    (last.op = "Retrieve" /\ last.err = Nil)
        => \E i \in 1..Len(encLog) :
               /\ FilePath(encLog[i].key) = last.path
               /\ encLog[i].plain = last.out
               /\ encLog[i].out = last.raw

\* a Retrieve has read a file in which the bytes of two Stores are mixed
MixedRecordRead ==
    /\ last.op = "Retrieve" /\ last.err # Nil /\ Len(last.raw) >= SaltLen + NonceLen + TagSize
    /\ \E i, j \in 1..Len(encLog) :
           /\ i # j
           /\ \E n \in 1..Len(last.raw) : n <= Len(encLog[i].out) /\ last.raw[n] = encLog[i].out[n]
           /\ \E n \in 1..Len(last.raw) : n <= Len(encLog[j].out) /\ last.raw[n] = encLog[j].out[n]

\* C21: the loop cannot spin forever on a repeated read error: once the host
\* is in the loop of run and every read of standard input returns an error
\* that is not end-of-file, run eventually returns.
C21_LoopTerminates ==
    (pipe.broken /\ loop.pc \in {"read", "log"}) ~> (loop.pc = "returned")

\* the part of it about a stream that ends inside a length prefix or inside a
\* message body: once the sender has closed a pipe that works and the read in
\* progress meets the end of the stream inside a frame, run eventually returns
EndsInsideFrameReturns ==
    (/\ pipe.closed /\ ~pipe.broken /\ loop.pc = "read"
     /\ readMessage(pipe).err \in {ErrReadLength, ErrReadData})
        ~> (loop.pc = "returned" \/ pipe.broken)

\* the loop has gone through a read error and is reading again
ReadErrorLogged ==
    /\ pipe.broken /\ loop.pc = "read" /\ loop.err = ErrReadLength

\* C24: when the loop is about to read the next message, and no I/O call has
\* failed, the host has sent one response for each message readMessage has
\* returned.
C24_OneResponsePerMessage ==
    (nfaults = 0 /\ loop.pc \in {"read", "log", "returned"})
        => loop.answered = loop.got

\* C25: every length prefix the loop reads begins where the sender began a
\* frame, also after readMessage has rejected a frame for its length; so the
\* bytes of the body of a rejected frame are not read as a length or as a
\* message.
C25_FramingSynchronised ==
    (loop.pc = "read" /\ ~pipe.broken /\ pipe.buf # <<>>)
        => pipe.consumed \in pipe.bounds

\* a message taken from the inside of a rejected frame has been stored and
\* answered
RejectedFrameStored ==
    /\ last.op = "Store" /\ last.handler = "handleMessage" /\ last.resp = "success"
    /\ pipe.consumed \notin pipe.bounds
    /\ pipe.nframes = 1

====
